---- MODULE Spec2Model ----
(***************************************************************************)
(* Model of the datavault agent's Parquet explorer (the tool facade, the   *)
(* dbt subprocess runner and its output extractor) and of the file         *)
(* utilities (path resolution and the YAML document appends).              *)
(*                                                                         *)
(* Texts are sequences of one-character strings.  A fixed message of the   *)
(* program (a literal of the source) is kept as one element, so a text is  *)
(* a sequence of characters and literals.  The source's cross mark is      *)
(* written (x).                                                            *)
(***************************************************************************)
EXTENDS Integers, Sequences, FiniteSets, TLC

\* --------------------------------------------------------------- bounds

\* 'data' events on a child's stdout in the facade specification
MaxData == 1
\* 'data' events on a child's stdout in the extractor specification
MaxLines == 3
\* 'error' events one child may emit
MaxErrorEvents == 2
\* the largest row limit a caller passes is LimitMax + MaxOver
MaxOver == 1

\* maxima of the store specifications: directories made by hand
MaxDirs == 1

\* The tool call followed from its start to its return.
Calls == {"c1"}

\* ---------------------------------------------------------------- texts

Undefined == "<undefined>"

IsDigit(ch) == ch \in {"0", "1", "2", "3", "4", "5", "6", "7", "8", "9"}

\* \s of a JavaScript regular expression, and what String.prototype.trim removes
IsSpace(ch) == ch \in {" ", "\t", "\n", "\r", "\f"}

\* . of a JavaScript regular expression: anything but a line terminator
IsDot(ch) == ch \notin {"\n", "\r"}

StartsWith(s, p) == Len(s) >= Len(p) /\ SubSeq(s, 1, Len(p)) = p

\* p occurs in s
Contains(s, p) ==
    \E i \in 1..(Len(s) + 1) : i + Len(p) - 1 <= Len(s) /\ SubSeq(s, i, i + Len(p) - 1) = p

RECURSIVE SplitFrom(_, _, _)
SplitFrom(s, i, cur) ==
    IF i > Len(s) THEN <<cur>>
    ELSE IF s[i] = "\n" THEN <<cur>> \o SplitFrom(s, i + 1, <<>>)
    ELSE SplitFrom(s, i + 1, Append(cur, s[i]))

\* s.split('\n')
Split(s) == SplitFrom(s, 1, <<>>)

RECURSIVE Join(_)
\* lines.join('\n')
Join(lines) ==
    IF lines = <<>> THEN <<>>
    ELSE IF Len(lines) = 1 THEN lines[1]
    ELSE lines[1] \o <<"\n">> \o Join(Tail(lines))

RECURSIVE TrimStart(_)
TrimStart(s) == IF s # <<>> /\ IsSpace(s[1]) THEN TrimStart(Tail(s)) ELSE s

RECURSIVE TrimEnd(_)
TrimEnd(s) ==
    IF s # <<>> /\ IsSpace(s[Len(s)]) THEN TrimEnd(SubSeq(s, 1, Len(s) - 1)) ELSE s

\* s.trim()
Trim(s) == TrimEnd(TrimStart(s))

DigitChar(n) ==
    CASE n = 0 -> "0" [] n = 1 -> "1" [] n = 2 -> "2" [] n = 3 -> "3" [] n = 4 -> "4"
      [] n = 5 -> "5" [] n = 6 -> "6" [] n = 7 -> "7" [] n = 8 -> "8" [] n = 9 -> "9"

RECURSIVE NatToStr(_)
NatToStr(n) == IF n < 10 THEN <<DigitChar(n)>> ELSE NatToStr(n \div 10) \o <<DigitChar(n % 10)>>

\* `${code}` of an integer
IntToStr(n) == IF n < 0 THEN <<"-">> \o NatToStr(0 - n) ELSE NatToStr(n)

\* ------------------------------------------------ the output extractor

\* line.match(/^\d{2}:\d{2}:\d{2}\s{2}(.*)$/)
MatchTimestamp(line) ==
    /\ Len(line) >= 10
    /\ IsDigit(line[1]) /\ IsDigit(line[2]) /\ line[3] = ":"
    /\ IsDigit(line[4]) /\ IsDigit(line[5]) /\ line[6] = ":"
    /\ IsDigit(line[7]) /\ IsDigit(line[8])
    /\ IsSpace(line[9]) /\ IsSpace(line[10])
    /\ \A i \in 11..Len(line) : IsDot(line[i])

\* match[1]
MatchContent(line) == SubSeq(line, 11, Len(line))

RunningWith == <<"R", "u", "n", "n", "i", "n", "g", " ", "w", "i", "t", "h", " ", "d", "b", "t", "=">>
RegisteredAdapter == <<"R", "e", "g", "i", "s", "t", "e", "r", "e", "d", " ", "a", "d", "a", "p", "t", "e", "r", ":">>
WarningTag == <<"[", "W", "A", "R", "N", "I", "N", "G", "]">>
ThereAre == <<"T", "h", "e", "r", "e", " ", "a", "r", "e">>
ModelsItem == <<"-", " ", "m", "o", "d", "e", "l", "s", ".">>
FoundPrefix == <<"F", "o", "u", "n", "d", " ">>

\* the startsWith chain that skips dbt's startup messages
IsStartupMessage(content) ==
    \/ StartsWith(content, RunningWith)
    \/ StartsWith(content, RegisteredAdapter)
    \/ StartsWith(content, WarningTag)
    \/ StartsWith(content, ThereAre)
    \/ StartsWith(content, ModelsItem)
    \/ StartsWith(content, FoundPrefix)

RECURSIVE ExtractLoopNoSkip(_, _, _)
\* the loop without its `continue`: startup messages are pushed too
ExtractLoopNoSkip(lines, i, outputLines) ==
    IF i > Len(lines) THEN outputLines
    ELSE IF MatchTimestamp(lines[i])
         THEN ExtractLoopNoSkip(lines, i + 1, Append(outputLines, MatchContent(lines[i])))
         ELSE ExtractLoopNoSkip(lines, i + 1, outputLines)

RECURSIVE ExtractLoopDedup(_, _, _)
\* the loop pushing a content only when it is not in outputLines yet
ExtractLoopDedup(lines, i, outputLines) ==
    IF i > Len(lines) THEN outputLines
    ELSE IF MatchTimestamp(lines[i]) /\ ~IsStartupMessage(MatchContent(lines[i]))
            /\ \A k \in 1..Len(outputLines) : outputLines[k] # MatchContent(lines[i])
         THEN ExtractLoopDedup(lines, i + 1, Append(outputLines, MatchContent(lines[i])))
         ELSE ExtractLoopDedup(lines, i + 1, outputLines)

RECURSIVE ExtractLoop(_, _, _)
\* for (const line of lines) { ... outputLines.push(content) }
ExtractLoop(lines, i, outputLines) ==
    IF i > Len(lines) THEN outputLines
    ELSE IF MatchTimestamp(lines[i])
         THEN IF IsStartupMessage(MatchContent(lines[i]))
              THEN ExtractLoop(lines, i + 1, outputLines)
              ELSE ExtractLoop(lines, i + 1, Append(outputLines, MatchContent(lines[i])))
         ELSE ExtractLoop(lines, i + 1, outputLines)

\* outputLines after the loop over stdout.split('\n')
OutputLines(out) == ExtractLoop(Split(out), 1, <<>>)

\* the fallback trimmed like the payload
SuccessTextTrimmed(out) ==
    IF Trim(Join(OutputLines(out))) # <<>> THEN Trim(Join(OutputLines(out))) ELSE Trim(out)

\* outputLines.join('\n').trim() || stdout
SuccessText(out) ==
    IF Trim(Join(OutputLines(out))) # <<>> THEN Trim(Join(OutputLines(out))) ELSE out

DbtFehler == "(x) dbt Fehler (Exit Code "

\* the streams taken in the other order: stdout || stderr
FailureTextStdoutFirst(code, out, err) ==
    <<DbtFehler>> \o IntToStr(code) \o <<")", ":", "\n">> \o (IF out # <<>> THEN out ELSE err)

\* `(x) dbt Fehler (Exit Code ${code}):\n${stderr || stdout}`
FailureText(code, out, err) ==
    <<DbtFehler>> \o IntToStr(code) \o <<")", ":", "\n">> \o (IF err # <<>> THEN err ELSE out)

\* what the 'close' listener resolves with
CloseText(code, out, err) ==
    IF code # 0 THEN FailureText(code, out, err) ELSE SuccessText(out)

SpawnFehler == "(x) Fehler beim Ausfuehren von dbt: "

\* what the 'error' listener resolves with
ErrorText(message) == <<SpawnFehler>> \o message

\* ------------------------------------------------------ the tool facade

\* limit = 5 in getParquetData's destructuring
DefaultLimit == 5
\* "Standard: 5, Max: 100" of the tool's input schema and of the command's documentation
LimitMax == 100

FolderPathRequired ==
    <<"(x) folder_path ist erforderlich (z.B. \"jira/sql\" oder \"werkportal/postgres\")">>
BothRequired == <<"(x) folder_path und file_name sind erforderlich">>

\* !value of a string that may be undefined
Falsy(value) == value = Undefined \/ value = ""

ReturnText(text) == [kind |-> "return", text |-> text, macroName |-> "", args |-> <<>>]
RunOperation(macroName, args) ==
    [kind |-> "run", text |-> <<>>, macroName |-> macroName, args |-> args]

\* listParquetFiles without its check of folder_path
listParquetFilesUnchecked(input) ==
    RunOperation("list_parquet_files", [folder_path |-> input.folder_path])

listParquetFiles(input) ==
    IF Falsy(input.folder_path) THEN ReturnText(FolderPathRequired)
    ELSE RunOperation("list_parquet_files", [folder_path |-> input.folder_path])

getParquetSchema(input) ==
    IF Falsy(input.folder_path) \/ Falsy(input.file_name) THEN ReturnText(BothRequired)
    ELSE RunOperation("get_parquet_schema",
                      [folder_path |-> input.folder_path, file_name |-> input.file_name])

getParquetData(input) ==
    IF Falsy(input.folder_path) \/ Falsy(input.file_name) THEN ReturnText(BothRequired)
    ELSE RunOperation("get_parquet_data",
                      [folder_path |-> input.folder_path, file_name |-> input.file_name,
                       limit |-> IF input.has_limit THEN input.limit ELSE DefaultLimit])

\* parquetTools[name].handler
Handler(name, input) ==
    CASE name = "list_parquet_files" -> listParquetFiles(input)
      [] name = "get_parquet_schema" -> getParquetSchema(input)
      [] name = "get_parquet_data" -> getParquetData(input)

ToolNames == {"list_parquet_files", "get_parquet_schema", "get_parquet_data"}

\* the keys the tool's input_schema lists under required
Required(name) ==
    IF name = "list_parquet_files" THEN {"folder_path"} ELSE {"folder_path", "file_name"}

\* the inputs a caller passes
FolderPaths == {Undefined, "", "jira/sql"}
FileNames == {Undefined, "", "Platform.Api_Project.parquet"}
Limits == {1, LimitMax} \cup ((LimitMax + 1)..(LimitMax + MaxOver))

Inputs(name) ==
    IF name = "list_parquet_files"
    THEN {[folder_path |-> f, file_name |-> Undefined, has_limit |-> FALSE, limit |-> 0] :
            f \in FolderPaths}
    ELSE IF name = "get_parquet_schema"
    THEN {[folder_path |-> f, file_name |-> n, has_limit |-> FALSE, limit |-> 0] :
            f \in FolderPaths, n \in FileNames}
    ELSE {[folder_path |-> f, file_name |-> n, has_limit |-> FALSE, limit |-> 0] :
            f \in FolderPaths, n \in FileNames}
         \cup {[folder_path |-> f, file_name |-> n, has_limit |-> TRUE, limit |-> l] :
            f \in FolderPaths, n \in FileNames, l \in Limits}

\* what the child processes do
ExitCodes == {0, 1, 127, -2}
ExtractExitCodes == {0, 1}
ErrorMessages == {<<"spawn dbt ENOENT">>}
Stamp == <<"1", "2", ":", "3", "4", ":", "5", "6">>
StdoutChunks == {Stamp \o <<" ", " ", "a", "\n">>}
StderrChunks == {<<"E", "r", "r">>}

\* the lines of the extractor specification: results, each of dbt's startup
\* messages, a blank content, an indented content, and lines without the timestamp
\* shape
ExtractLines ==
    { Stamp \o <<" ", " ", "a">>,
      Stamp \o <<" ", " ", "b">>,
      Stamp \o <<" ", " ">> \o RunningWith \o <<"1">>,
      Stamp \o <<" ", " ">> \o RegisteredAdapter,
      Stamp \o <<" ", " ">> \o WarningTag,
      Stamp \o <<" ", " ">> \o ThereAre,
      Stamp \o <<" ", " ">> \o ModelsItem,
      Stamp \o <<" ", " ">> \o FoundPrefix \o <<"1">>,
      Stamp \o <<" ", " ">>,
      Stamp \o <<" ", " ", " ", "a">>,
      Stamp \o <<" ", "a">>,
      <<"a">> }
\* the lines that also arrive without their line break
OpenLines == {Stamp \o <<" ", " ", "a">>, Stamp \o <<" ", " ">>, <<"a">>}
ExtractChunks == {l \o <<"\n">> : l \in ExtractLines} \cup OpenLines

\* ---------------------------------------------------- path resolution

\* path.resolve(__dirname, '..', '..', '..')
PROJECT_ROOT == <<"<project root>">>

RECURSIVE Normalize(_, _)
\* path.normalize: empty and "." segments dropped, ".." taking the segment before it
Normalize(segments, done) ==
    IF segments = <<>> THEN done
    ELSE IF Head(segments) \in {"", "."} THEN Normalize(Tail(segments), done)
    ELSE IF Head(segments) = ".." /\ done # <<>> /\ done[Len(done)] # ".."
         THEN Normalize(Tail(segments), SubSeq(done, 1, Len(done) - 1))
    ELSE Normalize(Tail(segments), Append(done, Head(segments)))

\* path.join(...segments)
PathJoin(segments) == Normalize(segments, <<>>)

\* path.dirname(filePath)
Dirname(filePath) == SubSeq(filePath, 1, Len(filePath) - 1)

PATHS ==
    [ models |-> PathJoin(PROJECT_ROOT \o <<"models">>),
      staging |-> PathJoin(PROJECT_ROOT \o <<"models", "staging">>),
      rawVault |-> PathJoin(PROJECT_ROOT \o <<"models", "raw_vault">>),
      businessVault |-> PathJoin(PROJECT_ROOT \o <<"models", "business_vault">>),
      mart |-> PathJoin(PROJECT_ROOT \o <<"models", "mart">>),
      sourcesYml |-> PathJoin(PROJECT_ROOT \o <<"models", "staging", "sources.yml">>),
      schemaYml |-> PathJoin(PROJECT_ROOT \o <<"models", "schema.yml">>) ]

\* ---------------------------------------------------------------- state

VARIABLES
    pc,        \* each call: "idle", "awaiting" (its promise), "returned"
    request,   \* each call: the tool name and the input it was made with
    spawns,    \* each call: the spawn() calls made for it, [macroName, args]
    child,     \* each call's child: "none", "running", "exited", "closed"
    exitCode,  \* the exit status of an exited child
    stdout,    \* let stdout = ''
    stderr,    \* let stderr = ''
    outData,   \* 'data' events seen on child.stdout
    errData,   \* 'data' events seen on child.stderr
    errors,    \* 'error' events the child has emitted
    promise,   \* the promise runDbtOperation (or the handler) returns
    returned,  \* the text the caller received
    env,       \* process.env.DV_DEFAULT_CONCEPT when the module was loaded
    files,     \* the two documents on disk
    dirs,      \* the directories made so far
    task,      \* each append in progress: its step, document, definition, parsed data
    history,   \* the calls, reads and writes of the appends, in the order they happened
    original,  \* the documents as they were at the start
    first,     \* a path resolution: its input and the path it gave
    last       \* the latest path resolution

facadeVars ==
    <<pc, request, spawns, child, exitCode, stdout, stderr, outData, errData, errors,
      promise, returned>>

storeVars == <<env, files, dirs, task, history, original, first, last>>

vars == <<facadeVars, storeVars>>

Pending == [settled |-> FALSE, value |-> <<>>]
NoRequest == [name |-> "", input |-> [folder_path |-> Undefined, file_name |-> Undefined,
                                      has_limit |-> FALSE, limit |-> 0]]

FacadeInit ==
    /\ pc = [c \in Calls |-> "idle"]
    /\ request = [c \in Calls |-> NoRequest]
    /\ spawns = [c \in Calls |-> <<>>]
    /\ child = [c \in Calls |-> "none"]
    /\ exitCode = [c \in Calls |-> 0]
    /\ stdout = [c \in Calls |-> <<>>]
    /\ stderr = [c \in Calls |-> <<>>]
    /\ outData = [c \in Calls |-> 0]
    /\ errData = [c \in Calls |-> 0]
    /\ errors = [c \in Calls |-> 0]
    /\ promise = [c \in Calls |-> Pending]
    /\ returned = [c \in Calls |-> <<>>]

\* resolve(value) that replaces what the promise was resolved with
ResolveAgain(p, value) == [settled |-> TRUE, value |-> value]

\* resolve(value): a settled promise stays as it is
Resolve(p, value) == IF p.settled THEN p ELSE [settled |-> TRUE, value |-> value]

\* spawn() called a second time for the same operation
SpawnTwice(log, macroName, args) ==
    log \o <<[macroName |-> macroName, args |-> args], [macroName |-> macroName, args |-> args]>>

\* const child = spawn(command, ['run-operation', macroName, '--args', argsJson], ...)
Spawn(log, macroName, args) == Append(log, [macroName |-> macroName, args |-> args])

\* A tool handler is called: it returns its diagnostic, or runDbtOperation spawns
\* the child and registers its listeners.
Invoke(c, name, input) ==
    /\ pc[c] = "idle"
    /\ pc' = [pc EXCEPT ![c] = "awaiting"]
    /\ request' = [request EXCEPT ![c] = [name |-> name, input |-> input]]
    /\ IF Handler(name, input).kind = "return"
       THEN /\ promise' = [promise EXCEPT ![c] = Resolve(@, Handler(name, input).text)]
            /\ UNCHANGED <<spawns, child>>
       ELSE /\ spawns' = [spawns EXCEPT ![c] =
                            Spawn(@, Handler(name, input).macroName, Handler(name, input).args)]
            /\ child' = [child EXCEPT ![c] = "running"]
            /\ UNCHANGED promise
    /\ UNCHANGED <<exitCode, stdout, stderr, outData, errData, errors, returned>>
    /\ UNCHANGED storeVars

\* child.stdout.on('data', ...)
StdoutData(c, data, max) ==
    /\ child[c] \in {"running", "exited"}
    /\ outData[c] < max
    /\ stdout' = [stdout EXCEPT ![c] = @ \o data]
    /\ outData' = [outData EXCEPT ![c] = @ + 1]
    /\ UNCHANGED <<pc, request, spawns, child, exitCode, stderr, errData, errors, promise,
                   returned>>
    /\ UNCHANGED storeVars

\* child.stderr.on('data', ...)
StderrData(c, data, max) ==
    /\ child[c] \in {"running", "exited"}
    /\ errData[c] < max
    /\ stderr' = [stderr EXCEPT ![c] = @ \o data]
    /\ errData' = [errData EXCEPT ![c] = @ + 1]
    /\ UNCHANGED <<pc, request, spawns, child, exitCode, stdout, outData, errors, promise,
                   returned>>
    /\ UNCHANGED storeVars

\* The child process ends; its 'close' event is due once its streams have ended.
ChildExit(c, code) ==
    /\ child[c] = "running"
    /\ child' = [child EXCEPT ![c] = "exited"]
    /\ exitCode' = [exitCode EXCEPT ![c] = code]
    /\ UNCHANGED <<pc, request, spawns, stdout, stderr, outData, errData, errors, promise,
                   returned>>
    /\ UNCHANGED storeVars

\* child.on('close', (code) => ...)
OnClose(c) ==
    /\ child[c] = "exited"
    /\ child' = [child EXCEPT ![c] = "closed"]
    /\ promise' = [promise EXCEPT ![c] = Resolve(@, CloseText(exitCode[c], stdout[c], stderr[c]))]
    /\ UNCHANGED <<pc, request, spawns, exitCode, stdout, stderr, outData, errData, errors,
                   returned>>
    /\ UNCHANGED storeVars

\* child.on('error', (error) => ...)
OnError(c, message) ==
    /\ child[c] # "none"
    /\ errors[c] < MaxErrorEvents
    /\ errors' = [errors EXCEPT ![c] = @ + 1]
    /\ promise' = [promise EXCEPT ![c] = Resolve(@, ErrorText(message))]
    /\ UNCHANGED <<pc, request, spawns, child, exitCode, stdout, stderr, outData, errData,
                   returned>>
    /\ UNCHANGED storeVars

\* The caller's await of the handler's promise continues.
Return(c) ==
    /\ pc[c] = "awaiting"
    /\ promise[c].settled
    /\ pc' = [pc EXCEPT ![c] = "returned"]
    /\ returned' = [returned EXCEPT ![c] = promise[c].value]
    /\ UNCHANGED <<request, spawns, child, exitCode, stdout, stderr, outData, errData, errors,
                   promise>>
    /\ UNCHANGED storeVars

\* --------------------------------------------------- the path resolver

\* process.env.DV_DEFAULT_CONCEPT || 'werkportal'
DEFAULT_CONCEPT == IF Falsy(env) THEN "werkportal" ELSE env

\* the concept directories present under PATHS.rawVault, as getAvailableConcepts lists them
ConceptsOnDisk == {d[Len(d) - 1] : d \in {x \in dirs : Len(x) = Len(PATHS.rawVault) + 2}}

\* the omitted concept taken from the directories on disk instead of DEFAULT_CONCEPT
getConceptPathsFromDisk(concept) ==
    LET chosen == IF concept # Undefined THEN concept
                  ELSE IF ConceptsOnDisk # {} THEN CHOOSE x \in ConceptsOnDisk : TRUE
                  ELSE DEFAULT_CONCEPT
        conceptDir == PathJoin(PATHS.rawVault \o <<chosen>>)
    IN  [ root |-> conceptDir,
          hubs |-> PathJoin(conceptDir \o <<"hubs">>),
          satellites |-> PathJoin(conceptDir \o <<"satellites">>),
          links |-> PathJoin(conceptDir \o <<"links">>) ]

\* getConceptPaths(concept = DEFAULT_CONCEPT)
getConceptPaths(concept) ==
    LET conceptDir ==
            PathJoin(PATHS.rawVault \o <<IF concept = Undefined THEN DEFAULT_CONCEPT ELSE concept>>)
    IN  [ root |-> conceptDir,
          hubs |-> PathJoin(conceptDir \o <<"hubs">>),
          satellites |-> PathJoin(conceptDir \o <<"satellites">>),
          links |-> PathJoin(conceptDir \o <<"links">>) ]

getHubPath(entityName, concept) ==
    PathJoin(getConceptPaths(concept).hubs \o <<"hub_" \o entityName \o ".sql">>)

getSatellitePath(entityName, concept, isEffectivity) ==
    PathJoin(getConceptPaths(concept).satellites
             \o <<(IF isEffectivity THEN "eff_sat_" ELSE "sat_") \o entityName \o ".sql">>)

getLinkPath(linkName, concept) ==
    PathJoin(getConceptPaths(concept).links \o <<"link_" \o linkName \o ".sql">>)

getStagingPath(entityName) == PathJoin(PATHS.staging \o <<"stg_" \o entityName \o ".sql">>)

getPitPath(entityName) == PathJoin(PATHS.businessVault \o <<"pit_" \o entityName \o ".sql">>)

getMartPath(viewName, subdir) ==
    IF ~Falsy(subdir) THEN PathJoin(PATHS.mart \o <<subdir, viewName \o ".sql">>)
    ELSE PathJoin(PATHS.mart \o <<viewName \o ".sql">>)

\* one call of a resolver, by the name of the function called
ResolvePath(in) ==
    CASE in.fn = "getHubPath" -> getHubPath(in.name, in.concept)
      [] in.fn = "getSatellitePath" -> getSatellitePath(in.name, in.concept, in.isEffectivity)
      [] in.fn = "getLinkPath" -> getLinkPath(in.name, in.concept)
      [] in.fn = "getStagingPath" -> getStagingPath(in.name)
      [] in.fn = "getPitPath" -> getPitPath(in.name)
      [] in.fn = "getMartPath" -> getMartPath(in.name, in.subdir)

\* the calls of the resolvers that are made
EntityNames == {"customer"}
Concepts == {Undefined, "", "werkportal", "adventureworks"}
Subdirs == {Undefined, "", "reporting"}
EnvValues == {Undefined, "", "adventureworks"}

PathInputs ==
    {[fn |-> f, name |-> n, concept |-> c, isEffectivity |-> FALSE, subdir |-> Undefined] :
        f \in {"getHubPath", "getLinkPath"}, n \in EntityNames, c \in Concepts}
    \cup {[fn |-> "getSatellitePath", name |-> n, concept |-> c, isEffectivity |-> e,
           subdir |-> Undefined] : n \in EntityNames, c \in Concepts, e \in BOOLEAN}
    \cup {[fn |-> f, name |-> n, concept |-> Undefined, isEffectivity |-> FALSE,
           subdir |-> Undefined] : f \in {"getStagingPath", "getPitPath"}, n \in EntityNames}
    \cup {[fn |-> "getMartPath", name |-> n, concept |-> Undefined, isEffectivity |-> FALSE,
           subdir |-> d] : n \in EntityNames, d \in Subdirs}

NoPath == [set |-> FALSE, in |-> [fn |-> "", name |-> "", concept |-> Undefined,
                                  isEffectivity |-> FALSE, subdir |-> Undefined],
           path |-> <<>>]

\* A resolver is called; the first call made and the latest one are kept.
CallResolver(in) ==
    /\ last' = [set |-> TRUE, in |-> in, path |-> ResolvePath(in)]
    /\ first' = IF first.set THEN first ELSE [set |-> TRUE, in |-> in, path |-> ResolvePath(in)]
    /\ UNCHANGED <<env, files, dirs, task, history, original>>
    /\ UNCHANGED facadeVars

\* ensureDir(dirPath), called for the directory of a resolved path
EnsureDir(dirPath) ==
    /\ dirPath \notin dirs
    /\ Cardinality(dirs \ {PATHS.models}) < MaxDirs
    /\ dirs' = dirs \cup {dirPath}
    /\ UNCHANGED <<env, files, task, history, original, first, last>>
    /\ UNCHANGED facadeVars

\* ------------------------------------------------- the document appends

Tasks == {"t1", "t2"}
Definitions == {"defA", "defB"}
Operations == {"appendToSourcesYaml", "addModelToSchemaYaml"}

\* a source group: its tables list, if it has one
Group(has, tables) == [has_tables |-> has, tables |-> tables]
\* a parsed document: a source catalog (sources) or a model catalog (models)
SourcesDoc(groups) == [sources |-> groups, has_models |-> FALSE, models |-> <<>>]
SchemaDoc(has, models) == [sources |-> <<>>, has_models |-> has, models |-> models]
NoFile == [exists |-> FALSE, text |-> [yaml |-> SchemaDoc(FALSE, <<>>)]]

\* stringifyYaml(data, ...) and parseYaml(content): the text holds the structure
stringifyYaml(data) == [yaml |-> data]
parseYaml(content) == content.yaml

SourcesFiles ==
    { NoFile,
      [exists |-> TRUE, text |-> stringifyYaml(SourcesDoc(<<Group(FALSE, <<>>)>>))],
      [exists |-> TRUE,
       text |-> stringifyYaml(SourcesDoc(<<Group(FALSE, <<>>), Group(TRUE, <<"table0">>),
                                           Group(TRUE, <<>>)>>))] }
SchemaFiles ==
    { NoFile,
      [exists |-> TRUE, text |-> stringifyYaml(SchemaDoc(FALSE, <<>>))],
      [exists |-> TRUE, text |-> stringifyYaml(SchemaDoc(TRUE, <<"model0">>))] }

DocumentOf(operation) ==
    IF operation = "appendToSourcesYaml" THEN "sourcesYml" ELSE "schemaYml"

\* sources.sources.find(s => s.tables): the index of the first group with tables, or 0
FindStaging(groups) ==
    IF \E k \in 1..Len(groups) : groups[k].has_tables
    THEN CHOOSE k \in 1..Len(groups) :
            groups[k].has_tables /\ \A j \in 1..(k - 1) : ~groups[j].has_tables
    ELSE 0

\* tables.unshift(tableDefinition): the definition put first
UnshiftTable(sources, tableDefinition) ==
    [sources EXCEPT !.sources[FindStaging(sources.sources)].tables = <<tableDefinition>> \o @]

\* stagingSource.tables.push(tableDefinition)
PushTable(sources, tableDefinition) ==
    [sources EXCEPT !.sources[FindStaging(sources.sources)].tables = Append(@, tableDefinition)]

\* if (!schema.models) schema.models = []; schema.models.push(modelDefinition)
PushModel(schema, modelDefinition) ==
    [schema EXCEPT !.has_models = TRUE,
                   !.models = Append(IF schema.has_models THEN schema.models ELSE <<>>,
                                     modelDefinition)]

IdleTask == [step |-> "idle", operation |-> "", definition |-> "",
             data |-> SchemaDoc(FALSE, <<>>)]

\* appendToSourcesYaml / addModelToSchemaYaml is called: readYaml awaits fs.readFile.
StartAppend(t, operation, definition) ==
    /\ task[t].step = "idle"
    /\ task' = [task EXCEPT ![t] = [step |-> "reading", operation |-> operation,
                                    definition |-> definition, data |-> SchemaDoc(FALSE, <<>>)]]
    /\ history' = Append(history, <<t, "call">>)
    /\ UNCHANGED <<env, files, dirs, original, first, last>>
    /\ UNCHANGED facadeVars

\* The read completes: the text is parsed and the definition pushed; writeYaml then
\* awaits ensureDir.  A missing file makes readFile throw; a source catalog without
\* a group that has tables is left as it is.
ReadDone(t) ==
    /\ task[t].step = "reading"
    /\ history' = Append(history, <<t, "read">>)
    /\ LET file == files[DocumentOf(task[t].operation)]
           data == parseYaml(file.text)
       IN  IF ~file.exists
           THEN task' = [task EXCEPT ![t].step = "failed"]
           ELSE IF task[t].operation = "appendToSourcesYaml"
           THEN IF FindStaging(data.sources) = 0
                THEN task' = [task EXCEPT ![t].step = "done", ![t].data = data]
                ELSE task' = [task EXCEPT ![t].step = "mkdir",
                                          ![t].data = PushTable(data, task[t].definition)]
           ELSE task' = [task EXCEPT ![t].step = "mkdir",
                                     ![t].data = PushModel(data, task[t].definition)]
    /\ UNCHANGED <<env, files, dirs, original, first, last>>
    /\ UNCHANGED facadeVars

\* writeFile: await ensureDir(path.dirname(filePath))
MakeDir(t) ==
    /\ task[t].step = "mkdir"
    /\ dirs' = dirs \cup {Dirname(PATHS[DocumentOf(task[t].operation)])}
    /\ task' = [task EXCEPT ![t].step = "writing"]
    /\ UNCHANGED <<env, files, history, original, first, last>>
    /\ UNCHANGED facadeVars

\* writeFile: await fs.writeFile(filePath, content, 'utf-8')
WriteDone(t) ==
    /\ task[t].step = "writing"
    /\ files' = [files EXCEPT ![DocumentOf(task[t].operation)] =
                    [exists |-> TRUE, text |-> stringifyYaml(task[t].data)]]
    /\ task' = [task EXCEPT ![t].step = "done"]
    /\ history' = Append(history, <<t, "write">>)
    /\ UNCHANGED <<env, dirs, original, first, last>>
    /\ UNCHANGED facadeVars

\* ------------------------------------------------------ specifications

StoreInit ==
    /\ env = Undefined
    /\ files = [sourcesYml |-> CHOOSE f \in SourcesFiles : f.exists /\ Len(f.text.yaml.sources) > 1,
                schemaYml |-> CHOOSE f \in SchemaFiles : f.exists /\ f.text.yaml.has_models]
    /\ dirs = {}
    /\ task = [t \in Tasks |-> IdleTask]
    /\ history = <<>>
    /\ original = files
    /\ first = NoPath
    /\ last = NoPath

Init == FacadeInit /\ StoreInit

\* The tool facade: one call from its start to its return.
Next ==
    \E c \in Calls :
        \/ \E name \in ToolNames : \E input \in Inputs(name) : Invoke(c, name, input)
        \/ \E data \in StdoutChunks : StdoutData(c, data, MaxData)
        \/ \E data \in StderrChunks : StderrData(c, data, MaxData)
        \/ \E code \in ExitCodes : ChildExit(c, code)
        \/ OnClose(c)
        \/ \E message \in ErrorMessages : OnError(c, message)
        \/ Return(c)

\* The event loop runs a due listener and a continuation that is ready.
Fairness == \A c \in Calls : WF_vars(OnClose(c)) /\ WF_vars(Return(c))

Spec == Init /\ [][Next]_vars /\ Fairness

\* The output extractor: one valid call whose child writes lines to stdout.
ExtractInput ==
    [folder_path |-> "jira/sql", file_name |-> Undefined, has_limit |-> FALSE, limit |-> 0]

NextExtract ==
    \E c \in Calls :
        \/ Invoke(c, "list_parquet_files", ExtractInput)
        \/ \E data \in ExtractChunks : StdoutData(c, data, MaxLines)
        \/ \E code \in ExtractExitCodes : ChildExit(c, code)
        \/ OnClose(c)
        \/ Return(c)

SpecExtract == Init /\ [][NextExtract]_vars

\* The document store: two appends that may interleave.
InitStore ==
    /\ FacadeInit
    /\ env = Undefined
    /\ files \in [sourcesYml : SourcesFiles, schemaYml : SchemaFiles]
    /\ dirs = {}
    /\ task = [t \in Tasks |-> IdleTask]
    /\ history = <<>>
    /\ original = files
    /\ first = NoPath
    /\ last = NoPath

NextStore ==
    \E t \in Tasks :
        \/ \E operation \in Operations : \E definition \in Definitions :
              StartAppend(t, operation, definition)
        \/ ReadDone(t)
        \/ MakeDir(t)
        \/ WriteDone(t)

SpecStore == InitStore /\ [][NextStore]_vars

\* The path resolver, with an append and directory creations going on beside it.
InitPaths ==
    /\ FacadeInit
    /\ env \in EnvValues
    /\ files = [sourcesYml |-> CHOOSE f \in SourcesFiles : f.exists /\ Len(f.text.yaml.sources) > 1,
                schemaYml |-> CHOOSE f \in SchemaFiles : f.exists /\ f.text.yaml.has_models]
    /\ dirs = {}
    /\ task = [t \in Tasks |-> IdleTask]
    /\ history = <<>>
    /\ original = files
    /\ first = NoPath
    /\ last = NoPath

NextPaths ==
    \/ \E in \in PathInputs : CallResolver(in)
    \/ \E in \in {x \in PathInputs : x.fn = "getHubPath"} : EnsureDir(Dirname(ResolvePath(in)))
    \/ StartAppend("t1", "addModelToSchemaYaml", "defA")
    \/ ReadDone("t1")
    \/ MakeDir("t1")
    \/ WriteDone("t1")

SpecPaths == InitPaths /\ [][NextPaths]_vars

\* ----------------------------------------------------------- properties

\* a required key of the call's tool is missing from its input
MissingRequired(c) ==
    /\ request[c].name \in ToolNames
    /\ \/ request[c].input.folder_path = Undefined
       \/ "file_name" \in Required(request[c].name) /\ request[c].input.file_name = Undefined

ValidRequest(c) ==
    /\ request[c].name \in ToolNames
    /\ ~Falsy(request[c].input.folder_path)
    /\ "file_name" \in Required(request[c].name) => ~Falsy(request[c].input.file_name)

\* C1: a call of listParquetFiles, getParquetSchema or getParquetData whose input
\* lacks folder_path (or, for schema and preview, file_name) is answered with the
\* validation diagnostic, and no child process is spawned for it at any time.
C1_NoSpawnOnMissingInput ==
    \A c \in Calls :
        MissingRequired(c) =>
            /\ spawns[c] = <<>>
            /\ child[c] = "none"
            /\ promise[c].settled
            /\ promise[c].value \in {FolderPathRequired, BothRequired}
            /\ pc[c] = "returned" => returned[c] = promise[c].value

C1_Witness ==
    \E c \in Calls :
        /\ request[c].name = "get_parquet_data"
        /\ request[c].input.folder_path = Undefined
        /\ request[c].input.file_name # Undefined
        /\ pc[c] = "returned"

\* the call has returned what its 'close' listener resolved with, for exit status 0
ReturnedOnSuccess(c) ==
    pc[c] = "returned" /\ child[c] = "closed" /\ exitCode[c] = 0 /\ errors[c] = 0

\* a timestamped line whose content is not a startup message
Surviving(line) == MatchTimestamp(line) /\ ~IsStartupMessage(MatchContent(line))

\* the contents of the surviving lines of a text, in the order of the lines
SurvivingContents(out) ==
    LET kept == SelectSeq(Split(out), Surviving)
    IN  [k \in 1..Len(kept) |-> MatchContent(kept[k])]

\* the contents of the timestamped lines of a text that are startup messages
DenylistedContents(out) ==
    {MatchContent(Split(out)[k]) : k \in {j \in 1..Len(Split(out)) :
        MatchTimestamp(Split(out)[j]) /\ IsStartupMessage(MatchContent(Split(out)[j]))}}

\* C3: on exit status 0, when no timestamped line survives the filter (so also when
\* no line is timestamped at all), the text returned is the raw stdout, character
\* for character.
C3_FallbackIsRawStdout ==
    \A c \in Calls :
        ReturnedOnSuccess(c) /\ SurvivingContents(stdout[c]) = <<>> =>
            returned[c] = stdout[c]

C3_Witness ==
    \E c \in Calls :
        /\ ReturnedOnSuccess(c)
        /\ SurvivingContents(stdout[c]) = <<>>
        /\ DenylistedContents(stdout[c]) # {}
        /\ Trim(stdout[c]) # stdout[c]

IsErrorText(text) == \E message \in ErrorMessages : text = <<SpawnFehler>> \o message

\* C5: a call has one result, which never changes once set.  Before any 'close',
\* an 'error' event makes the result the spawn-failure text with the error's
\* message; a later 'close' or 'error' leaves the result as it is, and so does an
\* 'error' after 'close'; what the caller received never changes either.
C5_OneResult ==
    /\ [](\A c \in Calls :
            /\ errors[c] > 0 /\ child[c] # "closed" => promise[c].settled /\ IsErrorText(promise[c].value)
            /\ child[c] = "closed" => promise[c].settled
            /\ pc[c] = "returned" => returned[c] = promise[c].value)
    /\ [][\A c \in Calls :
            /\ promise[c].settled => promise'[c] = promise[c]
            /\ pc[c] = "returned" => pc'[c] = "returned" /\ returned'[c] = returned[c]]_vars

\* the 'error' came first and the 'close' after it
C5_Witness ==
    \E c \in Calls :
        /\ child[c] = "closed"
        /\ errors[c] = 1
        /\ IsErrorText(promise[c].value)
        /\ pc[c] = "returned"

\* C6: getParquetData forwards limit 5 when the caller gives none, and never
\* forwards a limit above 100.
C6_LimitDefaultAndCap ==
    \A c \in Calls :
        \A k \in 1..Len(spawns[c]) :
            spawns[c][k].macroName = "get_parquet_data" =>
                /\ ~request[c].input.has_limit => spawns[c][k].args.limit = DefaultLimit
                /\ spawns[c][k].args.limit <= LimitMax

\* C10: a call with valid input spawns one child, at the call, and no other one
\* whatever the child does; it returns only after its child has emitted 'close' or
\* 'error' (so never, if the child does neither); and once the child has emitted
\* 'close', the call returns.
C10_OneChildAndReturnAfterClose ==
    /\ [](\A c \in Calls :
            /\ Len(spawns[c]) <= 1
            /\ ValidRequest(c) => Len(spawns[c]) = 1
            /\ ValidRequest(c) /\ (promise[c].settled \/ pc[c] = "returned") =>
                  child[c] = "closed" \/ errors[c] > 0)
    /\ \A c \in Calls : (child[c] = "closed") ~> (pc[c] = "returned")

C10_Witness ==
    \E c \in Calls :
        /\ ValidRequest(c)
        /\ Len(spawns[c]) = 1
        /\ child[c] = "closed"
        /\ exitCode[c] = 1
        /\ errors[c] = 0
        /\ pc[c] = "returned"

\* the lines a text is made of that are not blank, each trimmed
RECURSIVE TrimmedLines(_)
TrimmedLines(lines) ==
    IF lines = <<>> THEN <<>>
    ELSE IF Trim(Head(lines)) = <<>> THEN TrimmedLines(Tail(lines))
    ELSE <<Trim(Head(lines))>> \o TrimmedLines(Tail(lines))

C8_PayloadKeepsEveryContent ==
    \A c \in Calls :
        ReturnedOnSuccess(c) /\ Trim(Join(SurvivingContents(stdout[c]))) # <<>> =>
            LET contents == SurvivingContents(stdout[c])
                IsContent(line) == \E k \in 1..Len(contents) : contents[k] = line
            IN  SelectSeq(Split(returned[c]), IsContent) = contents

\* C8, amended: the payload is the surviving contents joined in the order of their
\* lines, nothing reordered and nothing removed as a duplicate, but for the white
\* space trimmed at its two ends: its non-blank lines are, trimmed, the non-blank
\* surviving contents, trimmed, in the same order and number.
C8_PayloadOrderAndMultiplicity ==
    \A c \in Calls :
        LET contents == SurvivingContents(stdout[c])
        IN  ReturnedOnSuccess(c) /\ Trim(Join(contents)) # <<>> =>
                /\ returned[c] = Trim(Join(contents))
                /\ TrimmedLines(Split(returned[c])) = TrimmedLines(contents)

\* the same content survives on two lines, with another content between them
C8_Witness ==
    \E c \in Calls :
        /\ ReturnedOnSuccess(c)
        /\ Len(SurvivingContents(stdout[c])) = 3
        /\ SurvivingContents(stdout[c])[1] = SurvivingContents(stdout[c])[3]
        /\ SurvivingContents(stdout[c])[1] # SurvivingContents(stdout[c])[2]
        /\ Len(Split(returned[c])) = 3

\* the place of an event in the history, 0 when it has not happened
Place(event) ==
    IF \E i \in 1..Len(history) : history[i] = event
    THEN CHOOSE i \in 1..Len(history) : history[i] = event
    ELSE 0

\* the list a document's append operation appends to
Entries(file, operation) ==
    IF operation = "appendToSourcesYaml"
    THEN parseYaml(file.text).sources[FindStaging(parseYaml(file.text).sources)].tables
    ELSE IF parseYaml(file.text).has_models THEN parseYaml(file.text).models ELSE <<>>

\* the source groups other than the one appended to
OtherGroups(file) ==
    [k \in 1..Len(parseYaml(file.text).sources) |->
        IF k = FindStaging(parseYaml(file.text).sources) THEN Group(TRUE, <<>>)
        ELSE parseYaml(file.text).sources[k]]

\* both appends went to the same document and have written it
BothWrote(a, b) ==
    /\ a # b
    /\ task[a].step = "done" /\ task[b].step = "done"
    /\ task[a].operation = task[b].operation
    /\ Place(<<a, "write">>) > 0 /\ Place(<<b, "write">>) > 0

\* C7: the appends take no lock.  Of two appends to the same document that both
\* read before either writes, the one that writes later wins: the document ends as
\* the entries it had followed by the later writer's definition, without the
\* earlier writer's.  Of two appends of which the first has written before the
\* second reads, as when the second is called after the first has written, the
\* document ends as the entries it had followed by the two definitions in the
\* order of the calls.  Nothing else in the documents changes.
C7_LaterWriteWins ==
    \A a, b \in Tasks :
        BothWrote(a, b) /\ Place(<<a, "write">>) < Place(<<b, "write">>) =>
            LET operation == task[a].operation
                before == Entries(original[DocumentOf(operation)], operation)
                after == Entries(files[DocumentOf(operation)], operation)
            IN  /\ Place(<<b, "read">>) < Place(<<a, "write">>) =>
                      after = before \o <<task[b].definition>>
                /\ Place(<<a, "write">>) < Place(<<b, "read">>) =>
                      after = before \o <<task[a].definition, task[b].definition>>
                /\ Place(<<a, "write">>) < Place(<<b, "call">>) =>
                      /\ Place(<<a, "call">>) < Place(<<b, "call">>)
                      /\ after = before \o <<task[a].definition, task[b].definition>>
                /\ OtherGroups(files[DocumentOf(operation)])
                      = OtherGroups(original[DocumentOf(operation)])
                /\ \A d \in {"sourcesYml", "schemaYml"} \ {DocumentOf(operation)} :
                      files[d] = original[d]

\* both read before either wrote, and the earlier writer's definition is lost
C7_Witness ==
    \E a, b \in Tasks :
        /\ BothWrote(a, b)
        /\ task[a].operation = "appendToSourcesYaml"
        /\ task[a].definition # task[b].definition
        /\ Place(<<b, "read">>) < Place(<<a, "write">>)
        /\ Place(<<a, "write">>) < Place(<<b, "write">>)
        /\ Entries(files.sourcesYml, "appendToSourcesYaml") = <<"table0", task[b].definition>>

\* two resolver calls that differ only in the concept being omitted in the one
\* and given as the default concept in the other
OmittedAndDefault(x, y) ==
    /\ x.concept = Undefined
    /\ y.concept = DEFAULT_CONCEPT
    /\ [x EXCEPT !.concept = y.concept] = y

\* C9: a resolver gives a path for every input, the same path whenever it is called
\* again with the same input, whatever was written, created or resolved since the
\* first call; and with the concept omitted it gives the path it gives for the
\* default concept.
C9_ResolutionIsPure ==
    /\ first.set => first.path # <<>>
    /\ last.set => last.path # <<>> /\ first.set
    /\ first.set /\ last.set /\ last.in = first.in => last.path = first.path
    /\ first.set /\ last.set /\ OmittedAndDefault(first.in, last.in) => last.path = first.path
    /\ first.set /\ last.set /\ OmittedAndDefault(last.in, first.in) => last.path = first.path

\* the same hub resolved again, concept omitted, after a concept directory was
\* made and a document written
C9_Witness ==
    /\ first.set /\ last.set
    /\ first.in = last.in
    /\ first.in.fn = "getHubPath"
    /\ first.in.concept = Undefined
    /\ env = "adventureworks"
    /\ \E d \in dirs : Len(d) = Len(PATHS.rawVault) + 2
    /\ task["t1"].step = "done"

====
